---- MODULE Spec2Model ----
(***************************************************************************)
(* The Table component of web/src/components/MemoContent/Table.tsx: one    *)
(* render pass maps the header list and the rows list of a table node to   *)
(* a <table> element with a <thead> and a <tbody>, every cell holding one  *)
(* <Renderer> element.                                                      *)
(***************************************************************************)
EXTENDS Integers, Sequences, FiniteSets, TLC

VARIABLES header, rows, passes

vars == <<header, rows, passes>>

\* Bounds of the model.
MaxHeader == 2
MaxCells == 2
MaxRows == 2
MaxPasses == 2

\* Node kinds the Renderer has a handler for, and one it has none for.
KnownKinds == {"TEXT"}

UnknownKind == "UNRECOGNIZED"

\* The nodes of a document tree: a kind discriminant and a payload.
Nodes ==
  { [type |-> "TEXT", content |-> "A"],
    [type |-> UnknownKind, content |-> "B"] }

\* The index prop a parent passes to a Table element.
ParentIndices == {"0", "1"}

\* Sequences over S of length at most n.
SeqUpTo(S, n) == UNION { [1..k -> S] : k \in 0..n }

\* TableNode_Row: a row holds its cells.
TableRows == { [cells |-> cs] : cs \in SeqUpTo(Nodes, MaxCells) }

Digit == <<"0", "1", "2", "3", "4", "5", "6", "7", "8", "9">>

\* String(i) of a non-negative integer: its decimal digits.
RECURSIVE String(_)
String(n) ==
  IF n < 10 THEN Digit[n + 1] ELSE String(n \div 10) \o Digit[(n % 10) + 1]

\* `${h.type}-${i}`
HeaderRendererKey(h, i) == h.type \o "-" \o String(i)

\* `${r.type}-${i}-${j}`
CellRendererKey(r, i, j) == r.type \o "-" \o String(i) \o "-" \o String(j)

\* Th with its key taken from a counter that outlives the render pass.
ThCounterKeyed(h, i) ==
  [key |-> i + Len(passes),
   child |-> [key |-> h.type \o "-" \o String(i), index |-> String(i), node |-> h]]

\* <th key={i}><Renderer key=... index={String(i)} node={h} /></th>
Th(h, i) ==
  [key |-> i,
   child |-> [key |-> HeaderRendererKey(h, i), index |-> String(i), node |-> h]]

\* Td keyed by the node's kind alone.
TdKeyedByType(r, i, j) ==
  [key |-> r.type,
   child |-> [key |-> r.type, index |-> String(j), node |-> r]]

\* <td key={j}><Renderer key=... index={String(j)} node={r} /></td>
Td(r, i, j) ==
  [key |-> j,
   child |-> [key |-> CellRendererKey(r, i, j), index |-> String(j), node |-> r]]

\* Tr walking the cells from the last to the first.
TrReversed(row, i) ==
  [key |-> i,
   cells |-> [c \in 1..Len(row.cells) |->
                Td(row.cells[Len(row.cells) - c + 1], i, c - 1)]]

\* <tr key={i}>{row.cells.map((r, j) => ...)}</tr>; positions are 0-based.
Tr(row, i) ==
  [key |-> i,
   cells |-> [c \in 1..Len(row.cells) |-> Td(row.cells[c], i, c - 1)]]

\* Table cutting every body row to the header's column count.
TableTruncating(props) ==
  [thead |-> << [cells |-> [k \in 1..Len(props.header) |->
                              Th(props.header[k], k - 1)]] >>,
   tbody |-> [r \in 1..Len(props.rows) |->
                [key |-> r - 1,
                 cells |-> [c \in 1..(IF Len(props.rows[r].cells) < Len(props.header)
                                      THEN Len(props.rows[r].cells)
                                      ELSE Len(props.header)) |->
                              Td(props.rows[r].cells[c], r - 1, c - 1)]]]]

\* Table giving up on a whole group as soon as one of its cells has a kind
\* without a handler.
TableAborting(props) ==
  [thead |-> << [cells |->
                   IF \E k \in 1..Len(props.header) :
                        props.header[k].type \notin KnownKinds
                   THEN << >>
                   ELSE [k \in 1..Len(props.header) |->
                           Th(props.header[k], k - 1)]] >>,
   tbody |-> IF \E r \in 1..Len(props.rows) :
                  \E c \in 1..Len(props.rows[r].cells) :
                    props.rows[r].cells[c].type \notin KnownKinds
             THEN << >>
             ELSE [r \in 1..Len(props.rows) |-> Tr(props.rows[r], r - 1)]]

\* The element Table returns: props.index is not read.
Table(props) ==
  [thead |-> << [cells |-> [k \in 1..Len(props.header) |->
                              Th(props.header[k], k - 1)]] >>,
   tbody |-> [r \in 1..Len(props.rows) |-> Tr(props.rows[r], r - 1)]]

\* Table reversing the header array in place before mapping it.
TableEffectReversing(props) ==
  [header |-> [k \in 1..Len(props.header) |->
                 props.header[Len(props.header) - k + 1]],
   rows |-> props.rows]

\* The header and rows arrays after Table has run: it only calls
\* Array.prototype.map on them, which does not modify its receiver.
TableEffect(props) == [header |-> props.header, rows |-> props.rows]

\* Renderer on one element's props: the handler of the node's kind, or the
\* fallback for a kind outside the known set.
Renderer(p) ==
  [status |-> IF p.node.type \in KnownKinds THEN "rendered" ELSE "fallback",
   node |-> p.node,
   index |-> p.index]

\* The rendered tree: every <Renderer> element of the table expanded.
Expand(t) ==
  [thead |-> [g \in 1..Len(t.thead) |->
                [k \in 1..Len(t.thead[g].cells) |->
                   Renderer(t.thead[g].cells[k].child)]],
   tbody |-> [r \in 1..Len(t.tbody) |->
                [c \in 1..Len(t.tbody[r].cells) |->
                   Renderer(t.tbody[r].cells[c].child)]]]

Init ==
  /\ header \in SeqUpTo(Nodes, MaxHeader)
  /\ rows \in SeqUpTo(TableRows, MaxRows)
  /\ passes = <<>>

\* One render pass of a Table element placed under parent index idx.
Render(idx) ==
  /\ Len(passes) < MaxPasses
  /\ LET props == [index |-> idx, header |-> header, rows |-> rows]
         out == Table(props)
         eff == TableEffect(props)
     IN /\ passes' = Append(passes, [props |-> props, out |-> out,
                                     dom |-> Expand(out)])
        /\ header' = eff.header
        /\ rows' = eff.rows

Next == \E idx \in ParentIndices : Render(idx)

Spec == Init /\ [][Next]_vars

----------------------------------------------------------------------------
\* The render passes made so far.
Passes == 1..Len(passes)

\* The places of the <Renderer> elements of pass p: <<"h", g, k>> is cell k
\* of row g of the header group, <<"b", r, c>> cell c of body row r.
Places(p) ==
  UNION { { <<"h", g, k>> : k \in 1..Len(passes[p].out.thead[g].cells) } :
            g \in 1..Len(passes[p].out.thead) }
  \cup
  UNION { { <<"b", r, c>> : c \in 1..Len(passes[p].out.tbody[r].cells) } :
            r \in 1..Len(passes[p].out.tbody) }

\* The <Renderer> element at a place of pass p.
ElementAt(p, x) ==
  IF x[1] = "h" THEN passes[p].out.thead[x[2]].cells[x[3]].child
  ELSE passes[p].out.tbody[x[2]].cells[x[3]].child

\* C1: every pass yields one header row of exactly header.length cells and
\* exactly rows.length body rows, body row r having exactly
\* rows[r].cells.length cells, whatever the header's column count is.
C1_Shape ==
  \A p \in Passes :
    LET pr == passes[p].props
        o == passes[p].out
    IN /\ Len(o.thead) = 1
       /\ Len(o.thead[1].cells) = Len(pr.header)
       /\ Len(o.tbody) = Len(pr.rows)
       /\ \A r \in 1..Len(pr.rows) :
            Len(o.tbody[r].cells) = Len(pr.rows[r].cells)

\* A ragged table was rendered: one row shorter and one row longer than the
\* header.
C1_Witness ==
  \E p \in Passes :
    LET pr == passes[p].props
    IN /\ \E r \in 1..Len(pr.rows) : Len(pr.rows[r].cells) < Len(pr.header)
       /\ \E r \in 1..Len(pr.rows) : Len(pr.rows[r].cells) > Len(pr.header)

\* C2: within one pass no two distinct cells are handed the same index.
C2_IndexUnique ==
  \A p \in Passes :
    \A x, y \in Places(p) :
      x # y => ElementAt(p, x).index # ElementAt(p, y).index

\* C3: the k-th header output is Renderer applied to header[k] and the c-th
\* output of body row r is Renderer applied to rows[r].cells[c], one output
\* per input cell and none besides.
C3_OrderPreserving ==
  \A p \in Passes :
    LET pr == passes[p].props
        d == passes[p].dom
    IN /\ Len(d.thead) = 1
       /\ DOMAIN d.thead[1] = DOMAIN pr.header
       /\ \A k \in DOMAIN pr.header : d.thead[1][k].node = pr.header[k]
       /\ DOMAIN d.tbody = DOMAIN pr.rows
       /\ \A r \in DOMAIN pr.rows :
            /\ DOMAIN d.tbody[r] = DOMAIN pr.rows[r].cells
            /\ \A c \in DOMAIN pr.rows[r].cells :
                 d.tbody[r][c].node = pr.rows[r].cells[c]

\* A table was rendered that has a body row of two different cells and a
\* header of two equal nodes.
C3_Witness ==
  \E p \in Passes :
    LET rs == passes[p].props.rows
    IN /\ \E r \in 1..Len(rs) :
            Len(rs[r].cells) = 2 /\ rs[r].cells[1] # rs[r].cells[2]
       /\ Len(passes[p].props.header) = 2
       /\ passes[p].props.header[1] = passes[p].props.header[2]

\* C4: a header of length 0 yields a header group with no row in it.
C4_NoHeaderRowWhenEmpty ==
  \A p \in Passes :
    Len(passes[p].props.header) = 0 => Len(passes[p].out.thead) = 0

\* C5: two tables rendered under different parent indices hand their cells
\* different indices.
C5_IndexComposedFromParent ==
  \A p, q \in Passes :
    passes[p].props.index # passes[q].props.index =>
      \A x \in Places(p) : \A y \in Places(q) :
        ElementAt(p, x).index # ElementAt(q, y).index

\* C6: two passes over the same header and rows yield the same elements and
\* the same rendered tree: nothing but header and rows decides the output.
C6_Deterministic ==
  \A p, q \in Passes :
    (/\ passes[p].props.header = passes[q].props.header
     /\ passes[p].props.rows = passes[q].props.rows)
    => /\ passes[p].out = passes[q].out
       /\ passes[p].dom = passes[q].dom

\* The same non-empty table was rendered twice.
C6_Witness ==
  /\ Len(passes) >= 2
  /\ passes[1].props.header = passes[2].props.header
  /\ passes[1].props.rows = passes[2].props.rows
  /\ Len(passes[1].props.header) > 0
  /\ Len(passes[1].props.rows) > 0
  /\ Len(passes[1].props.rows[1].cells) > 0

C8_InputUnchanged ==
  [][/\ header' = header
     /\ rows' = rows
     /\ \A k \in 1..Len(passes) : passes'[k] = passes[k]]_vars

\* Two passes ran over a table whose header holds two different nodes.
C8_Witness ==
  /\ Len(passes) >= 2
  /\ Len(header) = 2
  /\ header[1] # header[2]
  /\ Len(rows) > 0
  /\ passes[1].props.header = header

\* C10: the keys of the header cells are pairwise distinct, so are the keys
\* of the body rows, and so are the keys of the cells of each body row.
C10_KeysDistinct ==
  \A p \in Passes :
    LET o == passes[p].out
    IN /\ \A g \in 1..Len(o.thead) :
            \A k, l \in 1..Len(o.thead[g].cells) :
              k # l => o.thead[g].cells[k].key # o.thead[g].cells[l].key
       /\ \A r, s \in 1..Len(o.tbody) : r # s => o.tbody[r].key # o.tbody[s].key
       /\ \A r \in 1..Len(o.tbody) :
            \A c, e \in 1..Len(o.tbody[r].cells) :
              c # e => o.tbody[r].cells[c].key # o.tbody[r].cells[e].key

\* A table was rendered whose header holds two equal nodes, whose rows are
\* ragged and equal in their first cell, and one of whose rows holds two
\* equal cells.
C10_Witness ==
  \E p \in Passes :
    LET pr == passes[p].props
    IN /\ Len(pr.header) = 2
       /\ pr.header[1] = pr.header[2]
       /\ Len(pr.rows) = 2
       /\ Len(pr.rows[1].cells) = 1
       /\ Len(pr.rows[2].cells) = 2
       /\ pr.rows[2].cells[1] = pr.rows[2].cells[2]
       /\ pr.rows[1].cells[1] = pr.rows[2].cells[1]

====
